---- MODULE Spec2Model ----
(***************************************************************************)
(* tomo-nf: the SIREN neural field, its coordinate grid, the parallel-beam  *)
(* forward projections project_image / project_model and the fitting loop   *)
(* of tomo_siren.ipynb (and neural_fields_intro.ipynb, src/unnamed/part_000)*)
(*                                                                          *)
(* Real numbers are exact rationals [n, d] in lowest terms (d > 0); the     *)
(* floating-point rounding of numpy / torch is not modelled.  Angles are    *)
(* the twelve angles whose cosine and sine are multiples of 1/5 (the axis   *)
(* directions and the 3-4-5 directions), so rotations are exact.            *)
(***************************************************************************)
EXTENDS Integers, Sequences, FiniteSets, TLC

VARIABLES
    \* ---- image_coordinates (one call and its result)
    size, coords,
    \* ---- project_image / project_model (one call and its result)
    op, image, thetas, nr_B, nr_S, sinogram, model, theta, p,
    \* ---- Siren construction
    cfg, rng, layer, layers,
    \* ---- projection-mode fitting run (notebook globals)
    fit_pc, fit_i, fit_left, fit_j, target, losses,
    \* ---- direct-mode training (first update and the two training loops)
    train_pc, train_loop, train_i, n_coords, n_values, params, grad, pred,
    loss, ops, applied, ran,
    \* ---- the exception a call has raised ("" when none)
    err

gridVars == <<size, coords>>
projVars == <<op, image, thetas, nr_B, nr_S, sinogram, model, theta, p>>
sirenVars == <<cfg, rng, layer, layers>>
fitVars == <<fit_pc, fit_i, fit_left, fit_j, target, losses>>
trainVars == <<train_pc, train_loop, train_i, n_coords, n_values, params, grad,
               pred, loss, ops, applied, ran, err>>
vars == <<size, coords, op, image, thetas, nr_B, nr_S, sinogram, model, theta, p,
          cfg, rng, layer, layers,
          fit_pc, fit_i, fit_left, fit_j, target, losses,
          train_pc, train_loop, train_i, n_coords, n_values, params, grad,
          pred, loss, ops, applied, ran, err>>

(***************************************************************************)
(* Exact arithmetic                                                         *)
(***************************************************************************)
Abs(x) == IF x < 0 THEN -x ELSE x

RECURSIVE GCD(_, _)
GCD(a, b) == IF b = 0 THEN a ELSE GCD(b, a % b)

\* the rational n/d in lowest terms, d # 0
Rat(n, d) ==
    LET g == GCD(Abs(n), Abs(d))
        sg == IF d < 0 THEN -1 ELSE 1
    IN  [n |-> (sg * n) \div g, d |-> (sg * d) \div g]

RInt(k) == [n |-> k, d |-> 1]
RAdd(a, b) == Rat(a.n * b.d + b.n * a.d, a.d * b.d)
RSub(a, b) == Rat(a.n * b.d - b.n * a.d, a.d * b.d)
RMul(a, b) == Rat(a.n * b.n, a.d * b.d)
RDiv(a, b) == Rat(a.n * b.d, a.d * b.n)
RLe(a, b) == a.n * b.d <= b.n * a.d
RLt(a, b) == a.n * b.d < b.n * a.d

RECURSIVE RSum(_)
RSum(seq) == IF seq = <<>> THEN RInt(0) ELSE RAdd(Head(seq), RSum(Tail(seq)))

\* numpy / torch / tf linspace(start, stop, n): n evenly spaced values, both
\* ends included; a single value is the start
linspace(start, stop, n) ==
    [i \in 1..n |->
        IF n = 1 THEN start
        ELSE RAdd(start, RMul(Rat(i - 1, n - 1), RSub(stop, start)))]

\* row-major flatten of a matrix (a sequence of rows)
flatten(M) ==
    IF M = <<>> THEN <<>>
    ELSE LET C == Len(M[1])
         IN  [k \in 1..(Len(M) * C) |-> M[((k - 1) \div C) + 1][((k - 1) % C) + 1]]

(***************************************************************************)
(* image_coordinates                                                        *)
(***************************************************************************)
\* torch.meshgrid(x, y, indexing='ij'): X[i][j] = x[i], Y[i][j] = y[j]
meshgrid_ij(x, y) ==
    [X |-> [i \in 1..Len(x) |-> [j \in 1..Len(y) |-> x[i]]],
     Y |-> [i \in 1..Len(x) |-> [j \in 1..Len(y) |-> y[j]]]]

\* meshgrid(x, y, indexing='xy'): X[i][j] = x[j], Y[i][j] = y[i]
meshgrid_xy(x, y) ==
    [X |-> [i \in 1..Len(y) |-> [j \in 1..Len(x) |-> x[j]]],
     Y |-> [i \in 1..Len(y) |-> [j \in 1..Len(x) |-> y[i]]]]

\* mutation of coords_meshgrid: the grid built with indexing='xy'
coords_meshgrid_xy(x, y) == meshgrid_xy(x, y)

\* the meshgrid call of image_coordinates
coords_meshgrid(x, y) == meshgrid_ij(x, y)

image_coordinates(sz) ==
    LET r == sz[1]
        c == sz[2]
        x == linspace(RInt(-1), RInt(1), r)
        y == linspace(RInt(-1), RInt(1), c)
        G == coords_meshgrid(x, y)
        Xf == flatten(G.X)
        Yf == flatten(G.Y)
    IN  [k \in 1..Len(Xf) |-> <<Xf[k], Yf[k]>>]

MaxGrid == 10

GridIdle == size = <<0, 0>> /\ coords = <<>>
ProjIdle ==
    /\ op = {} /\ image = <<>> /\ thetas = <<>> /\ nr_B = 0 /\ nr_S = 0
    /\ sinogram = <<>> /\ model = <<>> /\ theta = 0 /\ p = <<>>
SirenIdle == cfg = <<>> /\ rng = 0 /\ layer = <<>> /\ layers = <<>>
FitIdle ==
    /\ fit_pc = "idle" /\ fit_i = 0 /\ fit_left = {} /\ fit_j = 0
    /\ target = <<>> /\ losses = <<>>
TrainIdle ==
    /\ train_pc = "idle" /\ train_loop = "" /\ train_i = 0
    /\ n_coords = 0 /\ n_values = 0 /\ params = 0 /\ grad = <<>>
    /\ pred = <<>> /\ loss = <<>> /\ ops = <<>> /\ applied = <<>>
    /\ ran = {} /\ err = ""

\* the size of the grid asked for, before the call
InitGrid ==
    /\ ProjIdle /\ SirenIdle /\ FitIdle /\ TrainIdle
    /\ size \in (1..MaxGrid) \X (1..MaxGrid)
    /\ coords = <<>>

\* coords = image_coordinates(size)
CallImageCoordinates ==
    /\ coords = <<>>
    /\ coords' = image_coordinates(size)
    /\ UNCHANGED <<size, projVars, sirenVars, fitVars, trainVars>>

NextGrid == CallImageCoordinates
SpecGrid == InitGrid /\ [][NextGrid]_vars

\* lexicographic order of points
PointLt(a, b) == RLt(a[1], b[1]) \/ (a[1] = b[1] /\ RLt(a[2], b[2]))

GridCalled == coords # <<>>
GridCommon ==
    /\ Len(coords) = size[1] * size[2]
    /\ \A k \in 1..Len(coords) : \A a \in 1..2 :
          RLe(RInt(-1), coords[k][a]) /\ RLe(coords[k][a], RInt(1))
    /\ \A k \in 1..(Len(coords) - 1) : PointLt(coords[k], coords[k + 1])
    /\ coords[1] = <<RInt(-1), RInt(-1)>>

\* C7 (as stated): for all positive r, c image_coordinates((r, c)) returns r*c
\* points in row-major order, all components in [-1, 1], first point (-1, -1),
\* last point (1, 1).
C7_Original ==
    GridCalled => (GridCommon /\ coords[Len(coords)] = <<RInt(1), RInt(1)>>)

\* C7 (amended): r*c points in row-major order, all components in [-1, 1],
\* first point (-1, -1); the last point is (1, 1) when r >= 2 and c >= 2, and an
\* axis of length 1 contributes -1 to every point.
C7_Amended ==
    GridCalled =>
        /\ GridCommon
        /\ coords[Len(coords)] =
              <<IF size[1] >= 2 THEN RInt(1) ELSE RInt(-1),
                IF size[2] >= 2 THEN RInt(1) ELSE RInt(-1)>>

C7_Witness ==
    /\ GridCalled
    /\ size = <<3, 2>>
    /\ coords[2] = <<RInt(-1), RInt(1)>>
    /\ coords[3] = <<RInt(0), RInt(-1)>>
    /\ coords[6] = <<RInt(1), RInt(1)>>

(***************************************************************************)
(* Angles and fields                                                        *)
(***************************************************************************)
\* An angle is an index into AngleTable; entry k holds <<5*cos, 5*sin>> of the
\* k-th angle, counter-clockwise from 0: 0, atan(3/4), atan(4/3), pi/2, ...
\* Entries 1, 4, 7, 10 are 0, pi/2, pi, 3pi/2.
TrigDen == 5
AngleTable ==
    << <<5, 0>>, <<4, 3>>, <<3, 4>>, <<0, 5>>, <<-3, 4>>, <<-4, 3>>,
       <<-5, 0>>, <<-4, -3>>, <<-3, -4>>, <<0, -5>>, <<3, -4>>, <<4, -3>> >>
Angles == 1..Len(AngleTable)
AngleZero == 1
cos(a) == Rat(AngleTable[a][1], TrigDen)
sin(a) == Rat(AngleTable[a][2], TrigDen)
\* a plus k table steps; AddPi is a + pi
AngleAdd(a, k) == ((a - 1 + k) % Len(AngleTable)) + 1
AddPi(a) == AngleAdd(a, Len(AngleTable) \div 2)

\* What np.cos / np.sin return beyond the exact value, in units of 2^-53 (half
\* the spacing of the doubles just above 1), times 10000.  The double nearest
\* pi/2, pi, 3pi/2 is not the angle itself: np.cos(np.pi/2) = 6.123e-17,
\* np.sin(np.pi) = 1.2246e-16, np.cos(3*np.pi/2) = -1.8370e-16; at 0 both are
\* exact.  The rounding at the other angles is not modelled.
TrigErrTable ==
    << <<0, 0>>, <<0, 0>>, <<0, 0>>, <<5515, 0>>, <<0, 0>>, <<0, 0>>,
       <<0, 11031>>, <<0, 0>>, <<0, 0>>, <<-16546, 0>>, <<0, 0>>, <<0, 0>> >>
cos_err(a) == Rat(TrigErrTable[a][1], 10000)
sin_err(a) == Rat(TrigErrTable[a][2], 10000)

\* searchsorted(grid, x) - 1, clipped to the cells of the grid
cell(grid, x) ==
    LET below == Cardinality({k \in 1..Len(grid) : RLt(grid[k], x)})
        i0 == below - 1
    IN  IF i0 < 0 THEN 1
        ELSE IF i0 > Len(grid) - 2 THEN Len(grid) - 1
        ELSE i0 + 1

\* bilinear interpolation of the array img, whose pixels sit on gx x gy, in the
\* cell of (x, y); a point beyond the array extrapolates the edge cell
bilinear(gx, gy, img, x, y) ==
    LET i == cell(gx, x)
        j == cell(gy, y)
        tx == RDiv(RSub(x, gx[i]), RSub(gx[i + 1], gx[i]))
        ty == RDiv(RSub(y, gy[j]), RSub(gy[j + 1], gy[j]))
        ux == RSub(RInt(1), tx)
        uy == RSub(RInt(1), ty)
    IN  RSum(<< RMul(RMul(ux, uy), RInt(img[i][j])),
                RMul(RMul(ux, ty), RInt(img[i][j + 1])),
                RMul(RMul(tx, uy), RInt(img[i + 1][j])),
                RMul(RMul(tx, ty), RInt(img[i + 1][j + 1])) >>)

\* a point of the plane inside [-1,1] x [-1,1]
InDomain(x, y) ==
    /\ RLe(RInt(-1), x) /\ RLe(x, RInt(1))
    /\ RLe(RInt(-1), y) /\ RLe(y, RInt(1))

\* the double computed for x + e * 2^-53 compares below lo = -1 / above hi = 1:
\* a computed value on the bound leaves it only when the error exceeds half the
\* spacing of the doubles there
fl_below(x, e, lo) == RLt(x, lo) \/ (x = lo /\ RLt(e, RInt(-1)))
fl_above(x, e, hi) == RLt(hi, x) \/ (x = hi /\ RLt(RInt(1), e))

\* RegularGridInterpolator's bounds test: x < grid[0] or x > grid[-1], per axis
out_of_bounds(gx, gy, pt) ==
    \/ fl_below(pt.x, pt.ex, gx[1]) \/ fl_above(pt.x, pt.ex, gx[Len(gx)])
    \/ fl_below(pt.y, pt.ey, gy[1]) \/ fl_above(pt.y, pt.ey, gy[Len(gy)])

\* interp = scipy.interpolate.RegularGridInterpolator((gx, gy), img,
\* bounds_error=False, fill_value=0); interp(pt)
interp(gx, gy, img, pt) ==
    IF out_of_bounds(gx, gy, pt) THEN RInt(0)
    ELSE bilinear(gx, gy, img, pt.x, pt.y)

\* model(posenc(pt)): the field network evaluated at a point of the plane.
\* The network is an argument of project_model; here it is a field that
\* reproduces the array `mdl` on the domain and continues linearly outside it.
model_forward(mdl, pt) ==
    bilinear(linspace(RInt(-1), RInt(1), Len(mdl)),
             linspace(RInt(-1), RInt(1), Len(mdl[1])), mdl, pt[1], pt[2])

(***************************************************************************)
(* project_image                                                            *)
(***************************************************************************)
\* nr_S = nr_S or nr_B   (None is 0)
nr_S_or_nr_B(nS, nB) == IF nS = 0 THEN nB ELSE nS

\* X = S * cos_a - B * sin_a, Y = S * sin_a + B * cos_a for one entry of the
\* grid and one angle; ex, ey are the rounding errors X and Y inherit from
\* cos_a and sin_a
rotate_image(a, B, S) ==
    [x |-> RSub(RMul(S, cos(a)), RMul(B, sin(a))),
     y |-> RAdd(RMul(S, sin(a)), RMul(B, cos(a))),
     ex |-> RSub(RMul(S, cos_err(a)), RMul(B, sin_err(a))),
     ey |-> RAdd(RMul(S, sin_err(a)), RMul(B, cos_err(a)))]

\* B, S = np.meshgrid(b, s, indexing='ij')
image_grid(nB, nS) ==
    meshgrid_ij(linspace(RInt(-1), RInt(1), nB),
                linspace(RInt(-1), RInt(1), nr_S_or_nr_B(nS, nB)))

\* val = interp((X, Y)) for one angle: val[i][j], shaped like B and S
image_val(img, nB, nS, a) ==
    LET G == image_grid(nB, nS)
        gx == linspace(RInt(-1), RInt(1), Len(img))
        gy == linspace(RInt(-1), RInt(1), Len(img[1]))
    IN  [i \in 1..Len(G.X) |-> [j \in 1..Len(G.X[i]) |->
            interp(gx, gy, img, rotate_image(a, G.X[i][j], G.Y[i][j]))]]

\* mutation of mean_axis0: the sum over axis 0, not divided by its length
sum_axis0(V) ==
    [j \in 1..Len(V[1]) |-> RSum([i \in 1..Len(V) |-> V[i][j]])]

\* val.mean(axis=0): one value per column of a matrix
mean_axis0(V) ==
    [j \in 1..Len(V[1]) |->
        RDiv(RSum([i \in 1..Len(V) |-> V[i][j]]), RInt(Len(V)))]

\* p = val.mean(axis=0).T: row t of the result belongs to thetas[t]
project_image(img, ths, nB, nS) ==
    [t \in 1..Len(ths) |-> mean_axis0(image_val(img, nB, nS, ths[t]))]

(***************************************************************************)
(* project_model                                                            *)
(***************************************************************************)
\* rot = [[sin_a, cos_a], [cos_a, -sin_a]]
rot(a) == << <<sin(a), cos(a)>>, <<cos(a), RSub(RInt(0), sin(a))>> >>

\* B, S = meshgrid(b, s, 'xy'); pts = stack([B, S], -1); reshape(pts, [-1, 2])
model_pts_flat(nB, nS) ==
    LET G == meshgrid_xy(linspace(RInt(-1), RInt(1), nB),
                         linspace(RInt(-1), RInt(1), nS))
    IN  flatten([i \in 1..Len(G.X) |-> [j \in 1..Len(G.X[i]) |->
                    <<G.X[i][j], G.Y[i][j]>>]])

\* reduce_sum(pt[None, :] * rot, -1): the rotation of one point
rotate_model(a, pt) ==
    [k \in 1..2 |-> RAdd(RMul(pt[1], rot(a)[k][1]), RMul(pt[2], rot(a)[k][2]))]

\* out = model(posenc(pts_flat)), still flat
model_out(mdl, a, nB, nS) ==
    LET q == model_pts_flat(nB, nS)
    IN  [n \in 1..Len(q) |-> model_forward(mdl, rotate_model(a, q[n]))]

\* tf.reshape(flat, (rows, cols))
reshape(flat, rows, cols) ==
    [i \in 1..rows |-> [j \in 1..cols |-> flat[(i - 1) * cols + j]]]

\* out = reshape(out, (nr_B, nr_S)); p = (1/nr_S) * reduce_sum(out, axis=-1)
project_model(mdl, a, nB, nS) ==
    LET out == reshape(model_out(mdl, a, nB, nS), nB, nS)
    IN  [i \in 1..nB |-> RMul(Rat(1, nS), RSum(out[i]))]

(***************************************************************************)
(* Calls of the projections                                                 *)
(***************************************************************************)
MaxImg == 2
MaxBins == 2
MaxThetas == 2
MaxVal == 2

\* The projections are linear in the image, so the images are the unit images
\* (one pixel 1, the others 0) and the constant images of every side 2..MaxImg.
UnitImage(N, a, b) == [i \in 1..N |-> [j \in 1..N |-> IF i = a /\ j = b THEN 1 ELSE 0]]
ConstImage(N, v) == [i \in 1..N |-> [j \in 1..N |-> v]]
Images ==
    UNION {{UnitImage(N, a, b) : a \in 1..N, b \in 1..N}
           \cup {ConstImage(N, v) : v \in 0..MaxVal} : N \in 2..MaxImg}

\* angle sequences: n angles from any start, each the one before plus pi
ThetaSeqs ==
    {[t \in 1..n |-> AngleAdd(a0, (t - 1) * (Len(AngleTable) \div 2))] :
        a0 \in Angles, n \in 0..MaxThetas}

\* The inputs of one projection experiment: an image, the network that
\* represents the same field, the angles and the sampling resolution (nr_S = 0
\* is nr_S=None).
InitProject ==
    /\ GridIdle /\ SirenIdle /\ FitIdle /\ TrainIdle
    /\ op = {}
    /\ image \in Images /\ model = image
    /\ thetas \in ThetaSeqs
    /\ nr_B \in 1..MaxBins /\ nr_S \in 0..MaxBins
    /\ sinogram = <<>> /\ theta = 0 /\ p = <<>>

\* sinogram = project_image(image, thetas, nr_B, nr_S)
CallProjectImage ==
    /\ op = {}
    /\ op' = op \cup {"project_image"}
    /\ sinogram' = project_image(image, thetas, nr_B, nr_S)
    /\ UNCHANGED <<image, thetas, nr_B, nr_S, model, theta, p>>
    /\ UNCHANGED <<gridVars, sirenVars, fitVars, trainVars>>

\* theta = thetas[0]; p = project_model(model, theta, nr_B, nr_S)
CallProjectModel ==
    /\ op = {"project_image"}
    /\ thetas # <<>> /\ nr_S >= 1
    /\ op' = op \cup {"project_model"}
    /\ theta' = thetas[1]
    /\ p' = project_model(model, thetas[1], nr_B, nr_S)
    /\ UNCHANGED <<image, thetas, nr_B, nr_S, model, sinogram>>
    /\ UNCHANGED <<gridVars, sirenVars, fitVars, trainVars>>

NextProject == CallProjectImage \/ CallProjectModel
SpecProject == InitProject /\ [][NextProject]_vars

(***************************************************************************)
(* Properties of the projections                                            *)
(***************************************************************************)
ImageDone == "project_image" \in op
ModelDone == "project_model" \in op
b_axis == linspace(RInt(-1), RInt(1), nr_B)
s_axis == linspace(RInt(-1), RInt(1), nr_S_or_nr_B(nr_S, nr_B))
image_gx == linspace(RInt(-1), RInt(1), Len(image))
image_gy == linspace(RInt(-1), RInt(1), Len(image[1]))
Reverse(row) == [k \in 1..Len(row) |-> row[Len(row) + 1 - k]]
Mean(row) == RDiv(RSum(row), RInt(Len(row)))

\* the image point the specification gives for angle a, detector offset b and
\* ray position s: x = s*cos(a) - b*sin(a), y = s*sin(a) + b*cos(a)
ClaimedPoint(a, b, s) ==
    << RSub(RMul(s, cos(a)), RMul(b, sin(a))),
       RAdd(RMul(s, sin(a)), RMul(b, cos(a))) >>

\* C1: project_image and project_model sample the field at the same image
\* point x = s*cos(theta) - b*sin(theta), y = s*sin(theta) + b*cos(theta) for
\* every theta, b and s, so project_model of a field gives the sinogram row
\* that project_image gives for the same field at the same theta.
C1_SameRotation ==
    (ImageDone /\ ModelDone) =>
        /\ \A i \in 1..nr_B : \A j \in 1..Len(s_axis) :
              LET c == rotate_image(theta, b_axis[i], s_axis[j])
              IN  <<c.x, c.y>> = ClaimedPoint(theta, b_axis[i], s_axis[j])
        /\ \A n \in 1..(nr_B * nr_S) :
              LET pt == model_pts_flat(nr_B, nr_S)[n]
              IN  rotate_model(theta, pt) = ClaimedPoint(theta, pt[1], pt[2])
        /\ p = sinogram[1]

\* C2: project_image returns exactly len(thetas) rows of exactly nr_B entries
\* each, for all positive nr_B and nr_S.
C2_SinogramShape ==
    ImageDone =>
        /\ Len(sinogram) = Len(thetas)
        /\ \A t \in 1..Len(sinogram) : Len(sinogram[t]) = nr_B

\* the values of the field along the ray of detector bin i at angle a
ImageRay(a, i) ==
    [j \in 1..Len(s_axis) |->
        interp(image_gx, image_gy, image, rotate_image(a, b_axis[i], s_axis[j]))]
ModelRay(a, i) ==
    [j \in 1..Len(s_axis) |->
        model_forward(model, rotate_model(a, <<b_axis[i], s_axis[j]>>))]

\* C3: in project_image and in project_model the value of detector bin b at
\* angle theta is the equal-weight mean of the nr_S field values sampled along
\* the ray of that bin, and of nothing else.
C3_MeanAlongRay ==
    /\ ImageDone =>
          \A t \in 1..Len(thetas) :
              /\ Len(sinogram[t]) = nr_B
              /\ \A i \in 1..nr_B : sinogram[t][i] = Mean(ImageRay(thetas[t], i))
    /\ ModelDone =>
          /\ Len(p) = nr_B
          /\ \A i \in 1..nr_B : p[i] = Mean(ModelRay(theta, i))

\* C4: a rotated sample outside [-1,1] x [-1,1] enters the projection with the
\* value 0, in project_image and in project_model.
C4_ZeroOutside ==
    /\ ImageDone =>
          \A t \in 1..Len(thetas) :
              LET G == image_grid(nr_B, nr_S)
                  val == image_val(image, nr_B, nr_S, thetas[t])
              IN  \A i \in 1..Len(val) : \A j \in 1..Len(val[i]) :
                      LET c == rotate_image(thetas[t], G.X[i][j], G.Y[i][j])
                      IN  ~InDomain(c.x, c.y) => val[i][j] = RInt(0)
    /\ ModelDone =>
          LET q == model_pts_flat(nr_B, nr_S)
              out == model_out(model, theta, nr_B, nr_S)
          IN  \A n \in 1..Len(q) :
                  LET r == rotate_model(theta, q[n])
                  IN  ~InDomain(r[1], r[2]) => out[n] = RInt(0)

\* C8: the sinogram row project_image produces at theta + pi is the row it
\* produces at theta in reversed order.
C8_MirroredRows ==
    ImageDone =>
        \A t1 \in 1..Len(thetas) : \A t2 \in 1..Len(thetas) :
            thetas[t2] = AddPi(thetas[t1]) => sinogram[t2] = Reverse(sinogram[t1])

IsConstant(img, v) == \A i \in 1..Len(img) : \A j \in 1..Len(img[i]) : img[i][j] = v

\* C9: for an image constant at v, every entry of the sinogram row
\* project_image returns at theta = 0 equals v, for all positive nr_B, nr_S.
C9_ConstantImage ==
    ImageDone =>
        \A t \in 1..Len(thetas) : \A v \in 0..MaxVal :
            (thetas[t] = AngleZero /\ IsConstant(image, v)) =>
                \A k \in 1..Len(sinogram[t]) : sinogram[t][k] = RInt(v)

C9_Witness ==
    /\ ImageDone /\ thetas # <<>> /\ thetas[1] = AngleZero
    /\ IsConstant(image, 2) /\ nr_B = 2 /\ nr_S = 2
    /\ sinogram[1] = <<RInt(2), RInt(2)>>

\* ------------------------------------------------------------------------
\* Siren construction (SineLayer.__init__, Siren.__init__)
\* ------------------------------------------------------------------------
\* A weight is a number q * sqrt(rad) with q and rad > 0 rational, so that
\* sqrt(6 / indim) / omega is kept exactly.
Surd(r) == [q |-> r, rad |-> RInt(1)]
sqrt(x) == [q |-> RInt(1), rad |-> x]
SDiv(a, r) == [q |-> RDiv(a.q, r), rad |-> a.rad]
SNeg(a) == [q |-> RSub(RInt(0), a.q), rad |-> a.rad]
SSq(a) == RMul(RMul(a.q, a.q), a.rad)
SLe(a, b) ==
    IF a.q.n <= 0 /\ b.q.n >= 0 THEN TRUE
    ELSE IF a.q.n > 0 /\ b.q.n <= 0 THEN FALSE
    ELSE IF a.q.n > 0 THEN RLe(SSq(a), SSq(b))
    ELSE RLe(SSq(b), SSq(a))

MaxDim == 2
MaxHidden == 2
MaxOmega == 2
MaxDraw == 3

\* the k-th number in [0, 1) the generator in state g hands out
rand(g, k) == Rat((g + k) % MaxDraw, MaxDraw)
\* tensor.uniform_(from, to): from + (to - from) * u, entry by entry in
\* row-major order (from and to are multiples of the same root)
uniform_(outdim, indim, from, to, g) ==
    [o \in 1..outdim |-> [i \in 1..indim |->
        [q |-> RAdd(from.q, RMul(RSub(to.q, from.q),
                                 rand(g, (o - 1) * indim + (i - 1)))),
         rad |-> from.rad]]]

\* mutation of SineLayer_w: the non-first branch taken for every layer
SineLayer_w_never_first(indim, is_first, omega) ==
    SDiv(sqrt(Rat(6, indim)), RInt(omega))

\* mutation of SineLayer_w: the non-first bound not divided by omega
SineLayer_w_no_omega(indim, is_first, omega) ==
    IF is_first THEN Surd(Rat(1, indim)) ELSE sqrt(Rat(6, indim))

\* the half-width of the initialisation interval of a SineLayer
SineLayer_w(indim, is_first, omega) ==
    IF is_first THEN Surd(Rat(1, indim))
    ELSE SDiv(sqrt(Rat(6, indim)), RInt(omega))

\* nn.Linear(indim, outdim) draws its default weight and bias first
nn_Linear_draws(indim, outdim) == indim * outdim + outdim
\* all the numbers one layer construction takes from the generator
layer_draws(indim, outdim) == nn_Linear_draws(indim, outdim) + indim * outdim

SineLayer(indim, outdim, is_first, omega, g) ==
    [kind |-> "SineLayer", omega |-> omega, is_first |-> is_first,
     indim |-> indim, outdim |-> outdim,
     weight |-> uniform_(outdim, indim,
                         SNeg(SineLayer_w(indim, is_first, omega)),
                         SineLayer_w(indim, is_first, omega),
                         g + nn_Linear_draws(indim, outdim))]

\* the half-width of the initialisation interval of final_linear
final_linear_w(c) == SDiv(sqrt(Rat(6, c.hiddendim)), RInt(c.hidden_omega))

final_linear(c, g) ==
    [kind |-> "Linear", indim |-> c.hiddendim, outdim |-> c.outdim,
     weight |-> uniform_(c.outdim, c.hiddendim,
                         SNeg(final_linear_w(c)), final_linear_w(c),
                         g + nn_Linear_draws(c.hiddendim, c.outdim))]

\* len(range(n))
range_len(n) == IF n > 0 THEN n ELSE 0

\* the generator state after the first layer and i hidden layers
rng_after(c, g, i) ==
    g + layer_draws(c.indim, c.hiddendim)
      + i * layer_draws(c.hiddendim, c.hiddendim)

\* Siren.__init__: the list handed to nn.Sequential
Siren(c, g) ==
    <<SineLayer(c.indim, c.hiddendim, TRUE, c.first_omega, g)>>
    \o [i \in 1..c.nr_hidden |->
           SineLayer(c.hiddendim, c.hiddendim, FALSE, c.hidden_omega,
                     rng_after(c, g, i - 1))]
    \o <<IF c.outermost_linear
         THEN final_linear(c, rng_after(c, g, range_len(c.nr_hidden)))
         ELSE SineLayer(c.hiddendim, c.outdim, FALSE, c.hidden_omega,
                        rng_after(c, g, range_len(c.nr_hidden)))>>

\* the arguments of the constructors and the state of the generator
Configs ==
    [indim : 1..MaxDim, outdim : 1..MaxDim, nr_hidden : 0..MaxHidden,
     hiddendim : 1..MaxDim, outermost_linear : BOOLEAN,
     first_omega : 1..MaxOmega, hidden_omega : 1..MaxOmega,
     is_first : BOOLEAN]

InitSiren ==
    /\ GridIdle /\ ProjIdle /\ FitIdle /\ TrainIdle
    /\ cfg \in Configs
    /\ rng \in 0..(MaxDraw - 1)
    /\ layer = <<>> /\ layers = <<>>

\* layer = SineLayer(indim, outdim, is_first=..., omega=...)
CallSineLayer ==
    /\ layer = <<>>
    /\ layer' = SineLayer(cfg.indim, cfg.outdim, cfg.is_first,
                          cfg.first_omega, rng)
    /\ rng' = (rng + layer_draws(cfg.indim, cfg.outdim)) % MaxDraw
    /\ UNCHANGED <<cfg, layers, gridVars, projVars, fitVars, trainVars>>

\* model = Siren(indim, outdim, nr_hidden, hiddendim, ...)
CallSiren ==
    /\ layers = <<>>
    /\ layers' = Siren(cfg, rng)
    /\ rng' = (rng_after(cfg, rng, range_len(cfg.nr_hidden))
               + layer_draws(cfg.hiddendim, cfg.outdim)) % MaxDraw
    /\ UNCHANGED <<cfg, layer, gridVars, projVars, fitVars, trainVars>>

NextSiren == CallSineLayer \/ CallSiren
SpecSiren == InitSiren /\ [][NextSiren]_vars

\* ------------------------------------------------------------------------
\* Properties of the construction
\* ------------------------------------------------------------------------
InRange(x, w) == SLe(SNeg(w), x) /\ SLe(x, w)
AllWeightsIn(l, w) ==
    /\ Len(l.weight) = l.outdim
    /\ \A o \in 1..l.outdim :
        /\ Len(l.weight[o]) = l.indim
        /\ \A i \in 1..l.indim : InRange(l.weight[o][i], w)
IsFirstLayer(l) == l.kind = "SineLayer" /\ l.is_first

\* C5: every weight of a fresh SineLayer with is_first=True lies in
\* [-1/indim, 1/indim] whatever omega is; in a fresh Siren that holds for
\* layer 0, and layer 0 is the only layer that takes the first-layer branch.
C5_FirstLayerRange ==
    /\ (layer # <<>> /\ layer.is_first) =>
           AllWeightsIn(layer, Surd(Rat(1, layer.indim)))
    /\ layers # <<>> =>
        /\ layers[1].indim = cfg.indim
        /\ AllWeightsIn(layers[1], Surd(Rat(1, cfg.indim)))
        /\ \A k \in 1..Len(layers) : IsFirstLayer(layers[k]) <=> k = 1

C5_Witness ==
    /\ layer # <<>> /\ layer.is_first /\ layer.indim = 2 /\ layer.omega = 2
    /\ layers # <<>> /\ Len(layers) = 4 /\ cfg.first_omega = 2
    /\ layers[1].weight[1][1] = Surd(Rat(-1, 2))

\* C6: every weight of a fresh non-first layer lies in
\* [-sqrt(6/indim)/omega, sqrt(6/indim)/omega]; in a fresh Siren that holds
\* for each of the nr_hidden hidden layers and for the final layer, linear
\* or periodic, with indim = hiddendim and omega = hidden_omega.
C6_OtherLayersRange ==
    /\ (layer # <<>> /\ ~layer.is_first) =>
           AllWeightsIn(layer, SDiv(sqrt(Rat(6, layer.indim)),
                                    RInt(layer.omega)))
    /\ layers # <<>> =>
        /\ Len(layers) = cfg.nr_hidden + 2
        /\ layers[Len(layers)].kind = "Linear" <=> cfg.outermost_linear
        /\ \A k \in 2..Len(layers) :
            /\ layers[k].indim = cfg.hiddendim
            /\ AllWeightsIn(layers[k], SDiv(sqrt(Rat(6, cfg.hiddendim)),
                                            RInt(cfg.hidden_omega)))

C6_Witness ==
    /\ layer # <<>> /\ ~layer.is_first /\ layer.omega = 2
    /\ layers # <<>> /\ Len(layers) = 4 /\ cfg.outermost_linear
    /\ cfg.hidden_omega = 2 /\ cfg.hiddendim = 2
    /\ layers[4].weight[1][1] = [q |-> Rat(-1, 2), rad |-> RInt(3)]

\* ------------------------------------------------------------------------
\* The projection-mode fitting run of the notebook
\* ------------------------------------------------------------------------
\* Every array of the run is kept as the array of its cells' meanings: which
\* angle and which position along the returned row a cell stands for.  The
\* values in the cells play no part in what the loop selects and compares.

\* val[b, s, t] is averaged over axis 0 and transposed: row t, entry s
project_image_cells(n_thetas, nB, nS) ==
    [t \in 1..n_thetas |->
        [k \in 1..nr_S_or_nr_B(nS, nB) |-> [angle |-> t, entry |-> k]]]

\* out is reshaped to (nr_B, nr_S) and summed over its last axis
project_model_cells(a, nB, nS) ==
    [k \in 1..nB |-> [angle |-> a, entry |-> k]]

\* the two cell arrays have the lengths the computed arrays have
CellsAgree ==
    /\ ImageDone =>
        /\ Len(sinogram) = Len(project_image_cells(Len(thetas), nr_B, nr_S))
        /\ \A t \in 1..Len(thetas) :
            Len(sinogram[t])
                = Len(project_image_cells(Len(thetas), nr_B, nr_S)[t])
    /\ ModelDone => Len(p) = Len(project_model_cells(theta, nr_B, nr_S))

\* the literals of the notebook
notebook_nr_B == 128
nr_thetas == 90
sinogram_nr_B == 100
N_iters == 20
notebook_nr_S == 128

\* thetas = np.linspace(0., np.pi, nr_thetas, endpoint=False), in units of pi
notebook_thetas == [k \in 1..nr_thetas |-> Rat(k - 1, nr_thetas)]

\* a fresh model: the number of optimiser steps applied to it
init_model == [steps |-> 0]

\* p - target is defined when the two shapes broadcast
broadcastable(a, b) == Len(a) = Len(b) \/ Len(a) = 1 \/ Len(b) = 1

\* the globals once the cells before the fitting cell have run
InitFit ==
    /\ GridIdle /\ SirenIdle /\ TrainIdle
    /\ op = {} /\ image = <<>> /\ model = <<>> /\ theta = 0 /\ p = <<>>
    /\ nr_B = notebook_nr_B /\ nr_S = 0
    /\ thetas = notebook_thetas
    /\ sinogram = project_image_cells(nr_thetas, sinogram_nr_B, 0)
    /\ fit_pc = "start" /\ fit_i = 0 /\ fit_left = {} /\ fit_j = 0
    /\ target = <<>> /\ losses = <<>>

\* model = init_model(); N_iters = 20; nr_S = 128; losses = []
FitBegin ==
    /\ fit_pc = "start"
    /\ model' = init_model /\ nr_S' = notebook_nr_S /\ losses' = <<>>
    /\ fit_i' = 0 /\ fit_pc' = "epoch"
    /\ UNCHANGED <<op, image, thetas, nr_B, sinogram, theta, p, fit_left,
                   fit_j, target, gridVars, sirenVars, trainVars>>

\* for i in range(N_iters+1): a new permutation of the angles is drawn
FitEpoch ==
    /\ fit_pc = "epoch"
    /\ IF fit_i <= N_iters
       THEN fit_left' = 1..Len(thetas) /\ fit_pc' = "select"
       ELSE fit_left' = {} /\ fit_pc' = "done"
    /\ UNCHANGED <<projVars, fit_i, fit_j, target, losses, gridVars,
                   sirenVars, trainVars>>

\* for j in np.random.permutation(thetas.size): theta, target = ...
FitSelect ==
    /\ fit_pc = "select"
    /\ IF fit_left = {}
       THEN /\ fit_i' = fit_i + 1 /\ fit_pc' = "epoch"
            /\ UNCHANGED <<fit_left, fit_j, theta, target>>
       ELSE \E j \in fit_left :
            /\ fit_j' = j /\ fit_left' = fit_left \ {j}
            /\ theta' = thetas[j] /\ target' = sinogram[j]
            /\ fit_pc' = "forward" /\ UNCHANGED fit_i
    /\ UNCHANGED <<op, image, thetas, nr_B, nr_S, sinogram, model, p, losses,
                   gridVars, sirenVars, trainVars>>

\* p = project_model(...); loss; apply_gradients; losses.append
FitForward ==
    /\ fit_pc = "forward"
    /\ p' = project_model_cells(theta, nr_B, nr_S)
    /\ IF broadcastable(p', target)
       THEN /\ model' = [steps |-> model.steps + 1]
            /\ losses' = Append(losses, <<fit_i, fit_j>>)
            /\ fit_pc' = "select"
       ELSE /\ fit_pc' = "error"
            /\ UNCHANGED <<model, losses>>
    /\ UNCHANGED <<op, image, thetas, nr_B, nr_S, sinogram, theta, fit_i,
                   fit_left, fit_j, target, gridVars, sirenVars, trainVars>>

NextFit == FitBegin \/ FitEpoch \/ FitSelect \/ FitForward
SpecFit == InitFit /\ [][NextFit]_vars

\* C10: at every step of the projection-mode fitting run the target is the
\* sinogram row of the selected angle, it has as many detector bins as the
\* projection project_model predicts for that angle, and the target sinogram
\* has exactly one row per angle of thetas.
C10_TargetMatchesPrediction ==
    /\ Len(sinogram) = Len(thetas)
    /\ fit_pc \in {"forward", "error"} =>
        /\ theta = thetas[fit_j]
        /\ target = sinogram[fit_j]
    /\ (fit_pc \in {"select", "error"} /\ p # <<>>) =>
        /\ p[1].angle = theta
        /\ Len(target) = Len(p)

\* ------------------------------------------------------------------------
\* Direct-mode training: the first update by hand and the two training loops
\* ------------------------------------------------------------------------
\* Tensors are kept as shapes; a gradient is the list of the steps whose
\* losses have been backpropagated into .grad since it was last cleared.

\* tensor.squeeze(): every axis of length 1 is dropped
squeeze(shape) == SelectSeq(shape, LAMBDA d : d # 1)
RECURSIVE numel(_)
numel(shape) == IF shape = <<>> THEN 1 ELSE Head(shape) * numel(Tail(shape))
\* a shape padded with leading axes of length 1 to n axes
pad_left(shape, n) ==
    [k \in 1..n |-> IF k <= n - Len(shape) THEN 1
                    ELSE shape[k - (n - Len(shape))]]
rank_of(a, b) == IF Len(a) >= Len(b) THEN Len(a) ELSE Len(b)
\* a - b is defined when, axis by axis from the right, the lengths are equal
\* or one of them is 1
broadcasts(a, b) ==
    \A k \in 1..rank_of(a, b) :
        LET x == pad_left(a, rank_of(a, b))[k]
            y == pad_left(b, rank_of(a, b))[k]
        IN  x = y \/ x = 1 \/ y = 1

\* the literals of the notebook
siren_outdim == 1
target_side == 128
first_iters == 500
batch_size == 1000
image_iters == 100
MaxBatch == 3

\* model(coords): one row of outdim values per row of coords
forward_shape(rows) == <<rows, siren_outdim>>
\* the step the loop is in
step_tag == <<train_loop, train_i>>
\* range(iters) of the loop that runs
iters_of(lp) == IF lp = "first" THEN first_iters ELSE image_iters
\* rows of coords and entries of the target in the loop that runs: a random
\* batch and gt computed from it, or the globals coords and values
coords_rows(lp) == IF lp = "first" THEN batch_size ELSE n_coords
target_shape(lp) == IF lp = "first" THEN <<batch_size>> ELSE <<n_values>>

\* the globals coords and values the image-fit cell finds
InitTrain ==
    /\ GridIdle /\ ProjIdle /\ SirenIdle /\ FitIdle
    /\ train_pc = "first_cell" /\ train_loop = "update" /\ train_i = 0
    /\ n_coords \in 1..MaxBatch /\ n_values \in 1..MaxBatch
    /\ params = 0 /\ grad = <<>> /\ pred = <<>> /\ loss = <<>>
    /\ ops = <<>> /\ applied = <<>> /\ ran = {} /\ err = ""

\* coords = image_coordinates(target.shape); pred = model(coords);
\* diff = pred.squeeze() - target.flatten(); loss = diff.pow(2).mean()
FirstLoss ==
    /\ train_pc = "first_cell"
    /\ pred' = [step |-> step_tag, params |-> params,
                shape |-> forward_shape(numel(<<target_side, target_side>>))]
    /\ IF broadcasts(squeeze(pred'.shape), <<numel(<<target_side, target_side>>)>>)
       THEN /\ loss' = [step |-> step_tag, finite |-> TRUE]
            /\ ops' = <<"forward", "compare">>
            /\ train_pc' = "first_backward" /\ err' = ""
       ELSE /\ loss' = loss /\ ops' = <<"forward">>
            /\ train_pc' = "error" /\ err' = "RuntimeError"
    /\ UNCHANGED <<train_loop, train_i, n_coords, n_values, params, grad,
                   applied, ran, gridVars, projVars, sirenVars, fitVars>>

\* loss.backward(): the gradient of the loss is added to .grad
backward(g, l) == Append(g, l.step)
\* a zero_grad that leaves .grad as it is
zero_grad_keep(g) == g
\* model.zero_grad() / optimizer.zero_grad()
zero_grad(g) == <<>>

\* loss.backward()
FirstBackward ==
    /\ train_pc = "first_backward"
    /\ grad' = backward(grad, loss)
    /\ ops' = Append(ops, "backward")
    /\ train_pc' = "first_update"
    /\ UNCHANGED <<train_loop, train_i, n_coords, n_values, params, pred,
                   loss, applied, err, ran, gridVars, projVars, sirenVars, fitVars>>

\* param.data -= learning_rate * param.grad; model.zero_grad()
FirstUpdate ==
    /\ train_pc = "first_update"
    /\ params' = params + 1 /\ applied' = grad
    /\ grad' = zero_grad(grad)
    /\ ops' = ops \o <<"update", "clear">>
    /\ train_pc' = "begin"
    /\ UNCHANGED <<train_loop, train_i, n_coords, n_values, pred, loss, err,
                   ran, gridVars, projVars, sirenVars, fitVars>>

\* one of the two training cells not run yet is run: iters = ...;
\* optimizer = torch.optim.Adam(model.parameters(), lr=1e-4); the image-fit
\* cell starts with model = Siren()
TrainBegin ==
    /\ train_pc = "begin"
    /\ \E lp \in {"first", "image"} \ ran :
        /\ train_loop' = lp /\ ran' = ran \cup {lp}
        /\ IF lp = "image"
           THEN params' = 0 /\ grad' = <<>> /\ applied' = <<>>
           ELSE UNCHANGED <<params, grad, applied>>
    /\ train_i' = 0 /\ train_pc' = "for"
    /\ UNCHANGED <<n_coords, n_values, pred, loss, ops, err,
                   gridVars, projVars, sirenVars, fitVars>>

\* for i in range(iters): ... and show_predictions(model) after the loop
TrainFor ==
    /\ train_pc = "for"
    /\ IF train_i < iters_of(train_loop)
       THEN train_pc' = "forward" /\ ops' = <<>> /\ UNCHANGED train_loop
       ELSE /\ train_pc' = IF ran = {"first", "image"} THEN "done" ELSE "begin"
            /\ UNCHANGED <<train_loop, ops>>
    /\ UNCHANGED <<train_i, n_coords, n_values, params, grad, pred, loss,
                   applied, err, ran, gridVars, projVars, sirenVars, fitVars>>

\* pred = model(coords).squeeze()
TrainForward ==
    /\ train_pc = "forward"
    /\ pred' = [step |-> step_tag, params |-> params,
                shape |-> squeeze(forward_shape(coords_rows(train_loop)))]
    /\ ops' = Append(ops, "forward")
    /\ train_pc' = "loss"
    /\ UNCHANGED <<train_loop, train_i, n_coords, n_values, params, grad,
                   loss, applied, err, ran, gridVars, projVars, sirenVars, fitVars>>

\* loss = (gt - pred).pow(2).mean() / loss = (values - pred).pow(2).mean()
TrainLoss ==
    /\ train_pc = "loss"
    /\ IF broadcasts(target_shape(train_loop), pred.shape)
       THEN /\ \E f \in BOOLEAN : loss' = [step |-> step_tag, finite |-> f]
            /\ ops' = Append(ops, "compare")
            /\ train_pc' = "zero_grad" /\ err' = ""
       ELSE /\ train_pc' = "error" /\ err' = "RuntimeError"
            /\ UNCHANGED <<loss, ops>>
    /\ UNCHANGED <<train_loop, train_i, n_coords, n_values, params, grad,
                   pred, applied, ran, gridVars, projVars, sirenVars, fitVars>>

\* optimizer.zero_grad()
TrainZeroGrad ==
    /\ train_pc = "zero_grad"
    /\ grad' = zero_grad(grad)
    /\ ops' = Append(ops, "clear")
    /\ train_pc' = "backward"
    /\ UNCHANGED <<train_loop, train_i, n_coords, n_values, params, pred,
                   loss, applied, err, ran, gridVars, projVars, sirenVars, fitVars>>

\* loss.backward()
TrainBackward ==
    /\ train_pc = "backward"
    /\ grad' = backward(grad, loss)
    /\ ops' = Append(ops, "backward")
    /\ train_pc' = "step"
    /\ UNCHANGED <<train_loop, train_i, n_coords, n_values, params, pred,
                   loss, applied, err, ran, gridVars, projVars, sirenVars, fitVars>>

\* optimizer.step(); the report every iters//10 steps changes nothing
TrainOptStep ==
    /\ train_pc = "step"
    /\ params' = params + 1 /\ applied' = grad
    /\ ops' = Append(ops, "update")
    /\ train_i' = train_i + 1 /\ train_pc' = "for"
    /\ UNCHANGED <<train_loop, n_coords, n_values, grad, pred, loss, err,
                   ran, gridVars, projVars, sirenVars, fitVars>>

NextTrain ==
    \/ FirstLoss \/ FirstBackward \/ FirstUpdate
    \/ TrainBegin \/ TrainFor \/ TrainForward \/ TrainLoss
    \/ TrainZeroGrad \/ TrainBackward \/ TrainOptStep
SpecTrain == InitTrain /\ [][NextTrain]_vars

\* the prediction of the running step and its target differ in their number
\* of values
TrainMismatch ==
    /\ train_loop \in {"first", "image"}
    /\ pred # <<>> /\ pred.step = step_tag
    /\ numel(pred.shape) # numel(target_shape(train_loop))

nn_Linear_err(indim, outdim) ==
    IF indim < 0 \/ outdim < 0 THEN "RuntimeError" ELSE ""

\* SineLayer.__init__: nn.Linear, then 1 / indim or sqrt(6 / indim) / omega,
\* then uniform_(-w, w), which needs -w <= w and a finite w
SineLayer_err(indim, outdim, is_first, omega) ==
    IF nn_Linear_err(indim, outdim) # "" THEN nn_Linear_err(indim, outdim)
    ELSE IF indim = 0 THEN "ZeroDivisionError"
    ELSE IF ~is_first /\ omega <= 0 THEN "RuntimeError"
    ELSE ""

\* the final nn.Linear of Siren.__init__ and its uniform_
final_linear_err(c) ==
    IF nn_Linear_err(c.hiddendim, c.outdim) # ""
    THEN nn_Linear_err(c.hiddendim, c.outdim)
    ELSE IF c.hiddendim = 0 THEN "ZeroDivisionError"
    ELSE IF c.hidden_omega <= 0 THEN "RuntimeError"
    ELSE ""

\* Siren.__init__: the first exception in the order of construction
Siren_err(c) ==
    IF SineLayer_err(c.indim, c.hiddendim, TRUE, c.first_omega) # ""
    THEN SineLayer_err(c.indim, c.hiddendim, TRUE, c.first_omega)
    ELSE IF /\ range_len(c.nr_hidden) > 0
            /\ SineLayer_err(c.hiddendim, c.hiddendim, FALSE,
                             c.hidden_omega) # ""
    THEN SineLayer_err(c.hiddendim, c.hiddendim, FALSE, c.hidden_omega)
    ELSE IF c.outermost_linear THEN final_linear_err(c)
    ELSE SineLayer_err(c.hiddendim, c.outdim, FALSE, c.hidden_omega)

\* np.linspace(-1, 1, n) raises for a negative n
linspace_err(n) == IF n < 0 THEN "ValueError" ELSE ""
\* project_image up to the meshgrid
project_image_err(nB, nS) ==
    IF linspace_err(nB) # "" THEN linspace_err(nB)
    ELSE linspace_err(nr_S_or_nr_B(nS, nB))

MaxArg == 1
AnyConfigs ==
    [indim : -1..MaxArg, outdim : -1..MaxArg, nr_hidden : -1..MaxArg,
     hiddendim : -1..MaxArg, outermost_linear : BOOLEAN,
     first_omega : -1..MaxArg, hidden_omega : -1..MaxArg,
     is_first : BOOLEAN]

\* either the arguments of a constructor or those of a projection; nr_B = 0
\* is left out (what the interpolator does with no sample is the library's)
InitConfig ==
    /\ GridIdle /\ FitIdle /\ TrainIdle
    /\ op = {} /\ model = <<>> /\ theta = 0 /\ p = <<>> /\ sinogram = <<>>
    /\ rng = 0 /\ layer = <<>> /\ layers = <<>>
    /\ \/ /\ cfg \in AnyConfigs
          /\ image = <<>> /\ thetas = <<>> /\ nr_B = 0 /\ nr_S = 0
       \/ /\ cfg = <<>>
          /\ image = ConstImage(2, 1) /\ thetas = <<AngleZero>>
          /\ nr_B \in (-1..MaxArg) \ {0} /\ nr_S \in -1..MaxArg

\* layer = SineLayer(indim, outdim, is_first=..., omega=...), any arguments
NewSineLayer ==
    /\ op = {} /\ cfg # <<>>
    /\ op' = {"SineLayer"}
    /\ err' = SineLayer_err(cfg.indim, cfg.outdim, cfg.is_first,
                            cfg.first_omega)
    /\ IF err' = ""
       THEN /\ layer' = SineLayer(cfg.indim, cfg.outdim, cfg.is_first,
                                  cfg.first_omega, rng)
            /\ rng' = (rng + layer_draws(cfg.indim, cfg.outdim)) % MaxDraw
       ELSE UNCHANGED <<layer, rng>>
    /\ UNCHANGED <<cfg, layers, image, thetas, nr_B, nr_S, sinogram, model,
                   theta, p, gridVars, fitVars>>
    /\ UNCHANGED <<train_pc, train_loop, train_i, n_coords, n_values, params,
                   grad, pred, loss, ops, applied, ran>>

\* model = Siren(indim, outdim, nr_hidden, hiddendim, ...), any arguments
NewSiren ==
    /\ op = {} /\ cfg # <<>>
    /\ op' = {"Siren"}
    /\ err' = Siren_err(cfg)
    /\ IF err' = ""
       THEN /\ layers' = Siren(cfg, rng)
            /\ rng' = (rng_after(cfg, rng, range_len(cfg.nr_hidden))
                       + layer_draws(cfg.hiddendim, cfg.outdim)) % MaxDraw
       ELSE UNCHANGED <<layers, rng>>
    /\ UNCHANGED <<cfg, layer, image, thetas, nr_B, nr_S, sinogram, model,
                   theta, p, gridVars, fitVars>>
    /\ UNCHANGED <<train_pc, train_loop, train_i, n_coords, n_values, params,
                   grad, pred, loss, ops, applied, ran>>

\* sinogram = project_image(image, thetas, nr_B, nr_S), any counts
NewSinogram ==
    /\ op = {} /\ cfg = <<>>
    /\ op' = {"project_image"}
    /\ err' = project_image_err(nr_B, nr_S)
    /\ IF err' = ""
       THEN sinogram' = project_image(image, thetas, nr_B, nr_S)
       ELSE UNCHANGED sinogram
    /\ UNCHANGED <<image, thetas, nr_B, nr_S, model, theta, p, gridVars,
                   sirenVars, fitVars>>
    /\ UNCHANGED <<train_pc, train_loop, train_i, n_coords, n_values, params,
                   grad, pred, loss, ops, applied, ran>>

NextConfig == NewSineLayer \/ NewSiren \/ NewSinogram
SpecConfig == InitConfig /\ [][NextConfig]_vars

NonPositiveLayer(c) == c.indim <= 0 \/ c.outdim <= 0 \/ c.first_omega <= 0
NonPositiveSiren(c) ==
    \/ c.nr_hidden <= 0 \/ c.hiddendim <= 0 \/ c.indim <= 0 \/ c.outdim <= 0
    \/ c.first_omega <= 0 \/ c.hidden_omega <= 0

\* C12: a construction of a SineLayer or a Siren with a non-positive layer
\* count, width or omega, and a projection with a non-positive bin or sample
\* count, ends in an error and yields no layer, no network and no sinogram.
C12_NonPositiveRejected ==
    /\ ("SineLayer" \in op /\ NonPositiveLayer(cfg)) =>
           err # "" /\ layer = <<>>
    /\ ("Siren" \in op /\ NonPositiveSiren(cfg)) =>
           err # "" /\ layers = <<>>
    /\ ("project_image" \in op /\ cfg = <<>> /\ (nr_B <= 0 \/ nr_S <= 0)) =>
           err # "" /\ sinogram = <<>>

\* ------------------------------------------------------------------------
\* Properties of the fitting runs
\* ------------------------------------------------------------------------
\* steps of the projection-mode run begun so far: whole epochs, plus the
\* angles already taken from the running epoch's permutation
steps_begun == fit_i * Len(thetas) + (Len(thetas) - Cardinality(fit_left))

\* C13: in projection-mode fitting every epoch takes each angle index of
\* thetas exactly once; a step projects the model at the selected angle
\* thetas[j] and compares it with sinogram[j]; and every step begun leaves
\* exactly one parameter update and one entry of the loss history.
C13_OneStepPerAngle ==
    /\ fit_pc \in {"select", "forward", "error"} =>
        fit_left \subseteq 1..Len(thetas)
    /\ fit_pc = "forward" =>
        /\ fit_j \notin fit_left
        /\ theta = thetas[fit_j] /\ target = sinogram[fit_j]
        /\ model.steps = steps_begun - 1 /\ Len(losses) = steps_begun - 1
    /\ (fit_pc \in {"select", "error"} /\ p # <<>>) =>
        /\ p[1].angle = thetas[fit_j]
        /\ model.steps = steps_begun
        /\ Len(losses) = steps_begun
        /\ losses[Len(losses)] = <<fit_i, fit_j>>

\* C14: a fitting run ends only by finishing its loop, after exactly the
\* configured number of steps: N_iters epochs of len(thetas) steps in
\* projection mode, iters steps in direct mode, with one update per step;
\* a loss that is not finite is recorded as it is and the run goes on.
C14_RunsToCompletion ==
    /\ fit_pc # "error"
    /\ fit_pc = "done" =>
        /\ fit_i = N_iters
        /\ model.steps = N_iters * Len(thetas)
        /\ Len(losses) = model.steps
    /\ (train_loop \in {"first", "image"} /\ train_pc \in {"begin", "done"}) =>
        train_i = iters_of(train_loop)
    /\ (train_loop \in {"first", "image"}
        /\ train_pc \in {"zero_grad", "backward", "step"}) =>
        /\ train_i < iters_of(train_loop)
        /\ loss.step = step_tag

\* the by-hand first update has just ended
FirstUpdateEnded == train_loop = "update" /\ train_pc = "begin"
\* a step of a training loop has just ended, and its tag
LoopStepEnded ==
    train_loop \in {"first", "image"} /\ train_pc = "for" /\ train_i > 0
ended_tag ==
    IF train_loop = "update" THEN <<"update", 0>>
    ELSE <<train_loop, train_i - 1>>

\* C15 as stated: every direct-mode step does, in this order and once each,
\* evaluate, compare, backpropagate, update, clear; the gradients are clear
\* when the step ends and the update used the gradient of that step's loss
\* only.
C15_Original ==
    (FirstUpdateEnded \/ LoopStepEnded) =>
        /\ ops = <<"forward", "compare", "backward", "update", "clear">>
        /\ grad = <<>>
        /\ applied = <<ended_tag>>

\* C15 amended: every direct-mode step does each of the five operations
\* once, evaluation and comparison first and the update after the
\* backpropagation, with no overlap with the next step.  The by-hand first
\* update clears last and ends with clear gradients; a step of a training
\* loop clears before it backpropagates and ends with the gradient of its
\* own loss alone in place.  Each update uses the gradient of that step's
\* loss only.
C15_Amended ==
    /\ FirstUpdateEnded =>
        /\ ops = <<"forward", "compare", "backward", "update", "clear">>
        /\ grad = <<>>
        /\ applied = <<ended_tag>>
    /\ LoopStepEnded =>
        /\ ops = <<"forward", "compare", "clear", "backward", "update">>
        /\ grad = <<ended_tag>>
        /\ applied = <<ended_tag>>
    /\ (train_loop \in {"first", "image"}
        /\ train_pc \in {"loss", "zero_grad", "backward", "step"}) =>
        pred.step = step_tag
    /\ (train_loop \in {"first", "image"} /\ train_pc = "step") =>
        grad = <<step_tag>>

\* the second step of the image loop has ended: the gradient of the first
\* step was in place when it began
C15_Witness ==
    /\ LoopStepEnded /\ train_loop = "image" /\ train_i = 2
    /\ applied = <<<<"image", 1>>>>
    /\ "first" \in ran

====
